---------------------------- MODULE Spec2Model ----------------------------
(***************************************************************************)
(* Behavior Tree Starter Kit (aigamedev/btsk).                             *)
(*                                                                         *)
(* Four of the kit's variants are modelled here:                           *)
(*   - bt1, the polling tree of BehaviorTree.cpp (SpecPoll): a Sequence or *)
(*     a Selector of MockBehavior children ticked by the host, and one     *)
(*     MockBehavior ticked directly;                                       *)
(*   - bt2, the Node/Task tree of BehaviorTreeShared.cpp (SpecShared): a   *)
(*     Behavior handle bound to the task of a MockComposite, whose task    *)
(*     rebinds its own handle from one MockNode child to the next;         *)
(*   - bt3, the arena of BehaviorTreeOptimized.cpp (SpecArena):            *)
(*     allocate<T>() and the 16-bit child offsets of a Composite;          *)
(*   - bt4, the event-driven scheduler of BehaviorTreeEvent.cpp            *)
(*     (SpecEvent, and SpecEventRun for a host that only starts and        *)
(*     ticks): a BehaviorTree queue, MockBehavior leaves and Sequences     *)
(*     that observe their children. SpecEventCancel adds leaves that call  *)
(*     stop() on themselves, SpecEventRunLive the progress of the loop of  *)
(*     tick().                                                             *)
(* SpecLockstep runs a bt1 Sequence and a bt4 Sequence side by side.       *)
(***************************************************************************)
EXTENDS Integers, Sequences, FiniteSets, TLC

(***************************************************************************)
(* enum Status                                                             *)
(***************************************************************************)
BH_INVALID == "BH_INVALID"
BH_SUCCESS == "BH_SUCCESS"
BH_FAILURE == "BH_FAILURE"
BH_RUNNING == "BH_RUNNING"
BH_SUSPENDED == "BH_SUSPENDED"

\* bt1::Status has four values, bt4::Status adds BH_SUSPENDED.
Status1 == {BH_INVALID, BH_SUCCESS, BH_FAILURE, BH_RUNNING}
Status4 == Status1 \cup {BH_SUSPENDED}

(***************************************************************************)
(* Bounds                                                                  *)
(***************************************************************************)
\* Largest number of children given to the polling composite.
MaxChildren == 3
\* Number of tick() calls the host makes on the polling behaviors.
MaxTicks == 3

\* Number of calls (start(), stop(), tick()) the host makes on the
\* scheduler.
MaxHostCalls == 5

\* Number of calls (tick(), setup(), teardown()) the host makes on the
\* Behavior handle of the Node/Task tree.
MaxHandleCalls == 5

VARIABLES
    \* ---- bt1: polling tree -------------------------------------------
    kind,            \* class of the composite: "Sequence" or "Selector"
    m_Children,      \* Composite::m_Children, a sequence of MockBehavior
    m_CurrentChild,  \* Sequence::m_CurrentChild / Selector::m_Current as an
                     \* index: 0 before onInitialize, Len+1 is end()
    m_eStatus,       \* Behavior::m_eStatus of the composite
    ret,             \* value returned by the last composite tick()
    tickLog,         \* children ticked by the last composite tick(), in
                     \* order, as <<index, returned status>>
    nTicks,          \* host tick() calls made on the composite
    t,               \* a MockBehavior ticked directly by the host
    tTicks,          \* host tick() calls made on t
    \* ---- bt4: event-driven scheduler ---------------------------------
    bh,              \* the behaviors, by id: fields of Behavior, Composite,
                     \* Sequence and MockBehavior
    m_Behaviors,     \* BehaviorTree::m_Behaviors, front first; NULL is the
                     \* end-of-update marker
    inTick,          \* BehaviorTree::tick() is in its while (step()) loop
    fault,           \* "none", or "assert" once an ASSERT has failed
    hostCalls,       \* start(), stop() and tick() calls made by the host
    startCount,      \* per behavior: start() calls so far
    startedInFrame,  \* behaviors started since the current tick() began
    tickedInFrame,   \* per behavior: ticks since the current tick() began
    queuedAtTick,    \* behaviors queued when the current tick() began
    statusAtTick,    \* per behavior: m_eStatus when the current tick() began
    stopped,         \* per behavior: result of the last stop(), if any
    observed,        \* per behavior: statuses its observer was called with
    passed,          \* per behavior: observer argument of the last start()
    cancelled,       \* the behavior that called stop() on itself from its
                     \* own update(), NULL while none has
    \* ---- bt2: Node/Task tree ----------------------------------------
    taskClass,       \* TASK of the MockComposite: "Sequence" or "Selector"
    size,            \* number of MockNode children of the MockComposite
    handle,          \* the host's Behavior bh: m_pTask, m_pNode, m_eStatus
    alive,           \* bh is in scope: its destructor has not run
    tasks,           \* every Task created so far, by id (creation order)
    m_pTask,         \* MockNode::m_pTask of each child node
    aborted,         \* an ASSERT of bt2 has failed
    lastCall,        \* the host's last call on bh, with m_eStatus and
                     \* whether a task was bound when it was made
    handleCalls,     \* calls the host has made on bh
    \* ---- bt3: arena ---------------------------------------------------
    m_iOffset,       \* BehaviorTree::m_iOffset
    objects,         \* the objects allocated so far, in order: offset in
                     \* the buffer, sizeof(T) and class
    composite,       \* index in objects of the Composite, 0 before it is
                     \* allocated
    m_ChildOffsets,  \* Composite::m_Children[0 .. m_ChildCount-1]
    m_ChildCount,    \* Composite::m_ChildCount
    added,           \* the children passed to addChild(), in order, as
                     \* indexes in objects
    arenaFault       \* "none", or the method whose ASSERT has failed

pollVars == <<kind, m_Children, m_CurrentChild, m_eStatus, ret, tickLog,
              nTicks, t, tTicks>>

evVars == <<bh, m_Behaviors, inTick, fault, hostCalls, startCount,
            startedInFrame, tickedInFrame, queuedAtTick, statusAtTick,
            stopped, observed, passed, cancelled>>

shVars == <<taskClass, size, handle, alive, tasks, m_pTask, aborted,
            lastCall, handleCalls>>

arVars == <<m_iOffset, objects, composite, m_ChildOffsets, m_ChildCount,
            added, arenaFault>>

vars == <<pollVars, evVars, shVars, arVars>>

\* The arena is not used.
ArIdle ==
    /\ m_iOffset = 0
    /\ objects = << >>
    /\ composite = 0
    /\ m_ChildOffsets = << >>
    /\ m_ChildCount = 0
    /\ added = << >>
    /\ arenaFault = "none"

\* The Node/Task objects are not built.
ShIdle ==
    /\ taskClass = "Sequence"
    /\ size = 0
    /\ handle = << >>
    /\ alive = FALSE
    /\ tasks = << >>
    /\ m_pTask = << >>
    /\ aborted = FALSE
    /\ lastCall = << >>
    /\ handleCalls = 0

(***************************************************************************)
(* bt1::MockBehavior                                                       *)
(***************************************************************************)
\* MockBehavior::MockBehavior(); calls is the list of virtual calls made by
\* the most recent tick() of this behavior.
MockBehavior ==
    [m_eStatus           |-> BH_INVALID,
     m_iInitializeCalled |-> 0,
     m_iTerminateCalled  |-> 0,
     m_iUpdateCalled     |-> 0,
     m_eReturnStatus     |-> BH_RUNNING,
     m_eTerminateStatus  |-> BH_INVALID,
     calls               |-> << >>]

MockOnInitialize(m) ==
    [m EXCEPT !.m_iInitializeCalled = @ + 1,
              !.calls = Append(@, "onInitialize")]

MockOnTerminate(m, s) ==
    [m EXCEPT !.m_iTerminateCalled = @ + 1,
              !.m_eTerminateStatus = s,
              !.calls = Append(@, "onTerminate")]

\* MockBehavior::update(): the returned value is m.m_eReturnStatus.
MockUpdate(m) ==
    [m EXCEPT !.m_iUpdateCalled = @ + 1,
              !.calls = Append(@, "update")]

\* Behavior::tick() without the m_eStatus == BH_INVALID test.
MockTick_AlwaysInitialize(m) ==
    LET m1 == MockOnInitialize([m EXCEPT !.calls = << >>])
        m2 == [MockUpdate(m1) EXCEPT !.m_eStatus = m1.m_eReturnStatus]
    IN  IF m2.m_eStatus # BH_RUNNING
        THEN MockOnTerminate(m2, m2.m_eStatus)
        ELSE m2

\* Behavior::tick() of a MockBehavior; the returned status is the new
\* m_eStatus.
MockTick(m) ==
    LET m0 == [m EXCEPT !.calls = << >>]
        m1 == IF m0.m_eStatus = BH_INVALID THEN MockOnInitialize(m0) ELSE m0
        m2 == [MockUpdate(m1) EXCEPT !.m_eStatus = m1.m_eReturnStatus]
    IN  IF m2.m_eStatus # BH_RUNNING
        THEN MockOnTerminate(m2, m2.m_eStatus)
        ELSE m2

(***************************************************************************)
(* bt1::Sequence and bt1::Selector                                         *)
(***************************************************************************)
\* Sequence::update() that only stops on a running child.
RECURSIVE SequenceUpdate_IgnoreFailure(_, _, _)
SequenceUpdate_IgnoreFailure(kids, cur, log) ==
    LET c     == MockTick(kids[cur])
        s     == c.m_eStatus
        kids2 == [kids EXCEPT ![cur] = c]
        log2  == Append(log, <<cur, s>>)
    IN  IF s = BH_RUNNING
        THEN [ret |-> s, kids |-> kids2, cur |-> cur, log |-> log2]
        ELSE IF cur + 1 = Len(kids) + 1
             THEN [ret |-> s, kids |-> kids2, cur |-> cur + 1, log |-> log2]
             ELSE SequenceUpdate_IgnoreFailure(kids2, cur + 1, log2)

\* Sequence::update() that takes the last child for end().
RECURSIVE SequenceUpdate_EndTooEarly(_, _, _)
SequenceUpdate_EndTooEarly(kids, cur, log) ==
    LET c     == MockTick(kids[cur])
        s     == c.m_eStatus
        kids2 == [kids EXCEPT ![cur] = c]
        log2  == Append(log, <<cur, s>>)
    IN  IF s # BH_SUCCESS
        THEN [ret |-> s, kids |-> kids2, cur |-> cur, log |-> log2]
        ELSE IF cur + 1 >= Len(kids)
             THEN [ret |-> BH_SUCCESS, kids |-> kids2, cur |-> cur + 1,
                   log |-> log2]
             ELSE SequenceUpdate_EndTooEarly(kids2, cur + 1, log2)

\* Sequence::update() that advances the cursor and leaves the next child to
\* the next tick.
SequenceUpdate_OneChildPerTick(kids, cur, log) ==
    LET c     == MockTick(kids[cur])
        s     == c.m_eStatus
        kids2 == [kids EXCEPT ![cur] = c]
        log2  == Append(log, <<cur, s>>)
    IN  IF s # BH_SUCCESS
        THEN [ret |-> s, kids |-> kids2, cur |-> cur, log |-> log2]
        ELSE IF cur + 1 = Len(kids) + 1
             THEN [ret |-> BH_SUCCESS, kids |-> kids2, cur |-> cur + 1,
                   log |-> log2]
             ELSE [ret |-> BH_RUNNING, kids |-> kids2, cur |-> cur + 1,
                   log |-> log2]

\* Sequence::update(): kids is m_Children, cur is m_CurrentChild, log the
\* children ticked so far by this call.
RECURSIVE SequenceUpdate(_, _, _)
SequenceUpdate(kids, cur, log) ==
    LET c     == MockTick(kids[cur])
        s     == c.m_eStatus
        kids2 == [kids EXCEPT ![cur] = c]
        log2  == Append(log, <<cur, s>>)
    IN  IF s # BH_SUCCESS
        THEN [ret |-> s, kids |-> kids2, cur |-> cur, log |-> log2]
        ELSE IF cur + 1 = Len(kids) + 1
             THEN [ret |-> BH_SUCCESS, kids |-> kids2, cur |-> cur + 1,
                   log |-> log2]
             ELSE SequenceUpdate(kids2, cur + 1, log2)

\* Selector::update() with the test of Sequence::update().
RECURSIVE SelectorUpdate_SequenceTest(_, _, _)
SelectorUpdate_SequenceTest(kids, cur, log) ==
    LET c     == MockTick(kids[cur])
        s     == c.m_eStatus
        kids2 == [kids EXCEPT ![cur] = c]
        log2  == Append(log, <<cur, s>>)
    IN  IF s # BH_SUCCESS
        THEN [ret |-> s, kids |-> kids2, cur |-> cur, log |-> log2]
        ELSE IF cur + 1 = Len(kids) + 1
             THEN [ret |-> BH_FAILURE, kids |-> kids2, cur |-> cur + 1,
                   log |-> log2]
             ELSE SelectorUpdate_SequenceTest(kids2, cur + 1, log2)

\* Selector::update()
RECURSIVE SelectorUpdate(_, _, _)
SelectorUpdate(kids, cur, log) ==
    LET c     == MockTick(kids[cur])
        s     == c.m_eStatus
        kids2 == [kids EXCEPT ![cur] = c]
        log2  == Append(log, <<cur, s>>)
    IN  IF s # BH_FAILURE
        THEN [ret |-> s, kids |-> kids2, cur |-> cur, log |-> log2]
        ELSE IF cur + 1 = Len(kids) + 1
             THEN [ret |-> BH_FAILURE, kids |-> kids2, cur |-> cur + 1,
                   log |-> log2]
             ELSE SelectorUpdate(kids2, cur + 1, log2)

\* Sequence::onInitialize() / Selector::onInitialize(): begin().
CompositeOnInitialize == 1

\* Values the tests assign to MockBehavior::m_eReturnStatus.
ReturnStatuses1 == {BH_SUCCESS, BH_FAILURE, BH_RUNNING}

\* The tick contract: the host ticks a behavior only while it has not
\* produced a terminal status.
Tickable(s) == s \in {BH_INVALID, BH_RUNNING}

PollInit ==
    /\ kind \in {"Sequence", "Selector"}
    /\ \E n \in 1..MaxChildren : m_Children = [i \in 1..n |-> MockBehavior]
    /\ m_CurrentChild = 0
    /\ m_eStatus = BH_INVALID
    /\ ret = BH_INVALID
    /\ tickLog = << >>
    /\ nTicks = 0
    /\ t = MockBehavior
    /\ tTicks = 0
    /\ bh = << >>
    /\ m_Behaviors = << >>
    /\ inTick = FALSE
    /\ fault = "none"
    /\ hostCalls = 0
    /\ startCount = << >>
    /\ startedInFrame = {}
    /\ tickedInFrame = << >>
    /\ queuedAtTick = {}
    /\ statusAtTick = << >>
    /\ stopped = << >>
    /\ observed = << >>
    /\ passed = << >>
    /\ cancelled = 0
    /\ ShIdle
    /\ ArIdle

\* seq[i].m_eReturnStatus = s, as the tests do between ticks.
SetChildReturn ==
    /\ \E i \in 1..Len(m_Children), s \in ReturnStatuses1 :
          /\ m_Children[i].m_eReturnStatus # s
          /\ m_Children' = [m_Children EXCEPT ![i].m_eReturnStatus = s]
    /\ UNCHANGED <<kind, m_CurrentChild, m_eStatus, ret, tickLog, nTicks,
                   t, tTicks, evVars, shVars, arVars>>

\* Behavior::tick() of the Sequence that calls onInitialize() on every
\* tick.
TickSequence_AlwaysInitialize ==
    /\ kind = "Sequence"
    /\ Tickable(m_eStatus)
    /\ nTicks + tTicks < MaxTicks
    /\ LET cur == CompositeOnInitialize
           r   == SequenceUpdate(m_Children, cur, << >>)
       IN  /\ m_Children' = r.kids
           /\ m_CurrentChild' = r.cur
           /\ m_eStatus' = r.ret
           /\ ret' = r.ret
           /\ tickLog' = r.log
    /\ nTicks' = nTicks + 1
    /\ UNCHANGED <<kind, t, tTicks, evVars, shVars, arVars>>

\* Behavior::tick() of the Sequence.
TickSequence ==
    /\ kind = "Sequence"
    /\ Tickable(m_eStatus)
    /\ nTicks + tTicks < MaxTicks
    /\ LET cur == IF m_eStatus = BH_INVALID THEN CompositeOnInitialize
                  ELSE m_CurrentChild
           r   == SequenceUpdate(m_Children, cur, << >>)
       IN  /\ m_Children' = r.kids
           /\ m_CurrentChild' = r.cur
           /\ m_eStatus' = r.ret
           /\ ret' = r.ret
           /\ tickLog' = r.log
    /\ nTicks' = nTicks + 1
    /\ UNCHANGED <<kind, t, tTicks, evVars, shVars, arVars>>

\* Behavior::tick() of the Selector.
TickSelector ==
    /\ kind = "Selector"
    /\ Tickable(m_eStatus)
    /\ nTicks + tTicks < MaxTicks
    /\ LET cur == IF m_eStatus = BH_INVALID THEN CompositeOnInitialize
                  ELSE m_CurrentChild
           r   == SelectorUpdate(m_Children, cur, << >>)
       IN  /\ m_Children' = r.kids
           /\ m_CurrentChild' = r.cur
           /\ m_eStatus' = r.ret
           /\ ret' = r.ret
           /\ tickLog' = r.log
    /\ nTicks' = nTicks + 1
    /\ UNCHANGED <<kind, t, tTicks, evVars, shVars, arVars>>

\* t.m_eReturnStatus = s
SetMockReturn ==
    /\ \E s \in ReturnStatuses1 :
          /\ t.m_eReturnStatus # s
          /\ t' = [t EXCEPT !.m_eReturnStatus = s]
    /\ UNCHANGED <<kind, m_Children, m_CurrentChild, m_eStatus, ret,
                   tickLog, nTicks, tTicks, evVars, shVars, arVars>>

\* t.tick()
TickMock ==
    /\ Tickable(t.m_eStatus)
    /\ nTicks + tTicks < MaxTicks
    /\ t' = MockTick(t)
    /\ tTicks' = tTicks + 1
    /\ UNCHANGED <<kind, m_Children, m_CurrentChild, m_eStatus, ret,
                   tickLog, nTicks, evVars, shVars, arVars>>

PollNext ==
    \/ SetChildReturn
    \/ TickSequence
    \/ TickSelector
    \/ SetMockReturn
    \/ TickMock

SpecPoll == PollInit /\ [][PollNext]_vars

(***************************************************************************)
(* bt4: the event-driven scheduler of BehaviorTreeEvent.cpp                *)
(***************************************************************************)
\* The end-of-update marker of the queue, and an empty BehaviorObserver.
NULL == 0
\* The value of stopped[b] while stop() has not been called on b.
NotStopped == "none"
\* The observer the host passes to start(): it records the status.
HostObserver == -1
\* A positive observer p is std::bind(&Sequence::onChildComplete, p, _1).

\* MockBehavior::MockBehavior() of bt4, with the Behavior fields. What
\* update() of a leaf returns is an input of each tick (r below), as the
\* host may assign m_eReturnStatus before any frame.
Mock ==
    [kind                |-> "Mock",
     m_Children          |-> << >>,
     m_Current           |-> 0,
     m_eStatus           |-> BH_INVALID,
     m_Observer          |-> NULL,
     m_iInitializeCalled |-> 0,
     m_iTerminateCalled  |-> 0,
     m_iUpdateCalled     |-> 0,
     m_eTerminateStatus  |-> BH_INVALID]

\* Sequence::Sequence(bt) with children pushed to m_Children; the mock
\* counters stay 0 for a Sequence.
SequenceOf(children) ==
    [Mock EXCEPT !.kind = "Sequence", !.m_Children = children]

\* The trees the host builds before the first tick: a Sequence of two
\* leaves beside a free leaf, a Sequence whose first child is a Sequence,
\* and a Sequence whose last child is a Sequence.
Trees ==
    { <<SequenceOf(<<2, 3>>), Mock, Mock, Mock>>,
      <<SequenceOf(<<2, 4>>), SequenceOf(<<3>>), Mock, Mock>>,
      <<SequenceOf(<<3, 2>>), SequenceOf(<<4>>), Mock, Mock>> }

Ids == DOMAIN bh

IsChild(b, p) == \E k \in DOMAIN bh[p].m_Children : bh[p].m_Children[k] = b

\* Behaviors that no Sequence owns: the ones the host starts and stops.
Roots == {b \in Ids : \A p \in Ids : ~IsChild(b, p)}

Leaves == {b \in Ids : bh[b].kind = "Mock"}

\* The state the scheduler's methods work on.
World ==
    [bh |-> bh, q |-> m_Behaviors, fault |-> fault,
     startCount |-> startCount, startedInFrame |-> startedInFrame,
     tickedInFrame |-> tickedInFrame, stopped |-> stopped,
     observed |-> observed, passed |-> passed]

\* BehaviorTree::start() that appends to the queue.
start_PushBack(w, b, observer) ==
    [w EXCEPT !.bh[b].m_Observer = IF observer # NULL THEN observer ELSE @,
              !.q = Append(@, b),
              !.startCount[b] = @ + 1,
              !.startedInFrame = IF inTick THEN @ \cup {b} ELSE @,
              !.passed[b] = observer]

\* BehaviorTree::start()
start(w, b, observer) ==
    [w EXCEPT !.bh[b].m_Observer = IF observer # NULL THEN observer ELSE @,
              !.q = <<b>> \o @,
              !.startCount[b] = @ + 1,
              !.startedInFrame = IF inTick THEN @ \cup {b} ELSE @,
              !.passed[b] = observer]

RECURSIVE stop(_, _, _)
RECURSIVE onChildComplete(_, _)

\* bh.m_Observer(s): the call of the attached std::function.
Notify(w, b, s) ==
    LET w1 == [w EXCEPT !.observed[b] = Append(@, s)]
    IN  IF w.bh[b].m_Observer = HostObserver
        THEN w1
        ELSE onChildComplete(w1, w.bh[b].m_Observer)

\* BehaviorTree::stop()
stop(w, b, result) ==
    IF result = BH_RUNNING
    THEN [w EXCEPT !.fault = "assert"]
    ELSE LET w1 == [w EXCEPT !.bh[b].m_eStatus = result,
                             !.stopped[b] = result]
         IN  IF w1.bh[b].m_Observer # NULL
             THEN Notify(w1, b, result)
             ELSE w1

\* Sequence::onChildComplete() that does not stop the Sequence when its
\* last child has succeeded.
onChildComplete_KeepsRunning(w, p) ==
    LET child == w.bh[p].m_Children[w.bh[p].m_Current]
        next  == w.bh[p].m_Current + 1
        w1    == [w EXCEPT !.bh[p].m_Current = next]
    IN  IF w.bh[child].m_eStatus = BH_FAILURE
        THEN stop(w, p, BH_FAILURE)
        ELSE IF w.bh[child].m_eStatus # BH_SUCCESS
             THEN [w EXCEPT !.fault = "assert"]
             ELSE IF next = Len(w.bh[p].m_Children) + 1
                  THEN w1
                  ELSE start(w1, w.bh[p].m_Children[next], p)

\* Sequence::onChildComplete() of Sequence p.
onChildComplete(w, p) ==
    LET child == w.bh[p].m_Children[w.bh[p].m_Current]
        next  == w.bh[p].m_Current + 1
        w1    == [w EXCEPT !.bh[p].m_Current = next]
    IN  IF w.bh[child].m_eStatus = BH_FAILURE
        THEN stop(w, p, BH_FAILURE)
        ELSE IF w.bh[child].m_eStatus # BH_SUCCESS
             THEN [w EXCEPT !.fault = "assert"]
             ELSE IF next = Len(w.bh[p].m_Children) + 1
                  THEN stop(w1, p, BH_SUCCESS)
                  ELSE start(w1, w.bh[p].m_Children[next], p)

\* Sequence::onInitialize() / MockBehavior::onInitialize()
onInitialize(w, b) ==
    IF w.bh[b].kind = "Sequence"
    THEN start([w EXCEPT !.bh[b].m_Current = 1], w.bh[b].m_Children[1], b)
    ELSE [w EXCEPT !.bh[b].m_iInitializeCalled = @ + 1]

\* Sequence::update() that returns the result of stop() once the Sequence
\* was stopped.
updateResult_KeepStopped(w, b, r) ==
    IF w.bh[b].kind = "Sequence"
    THEN IF w.stopped[b] # NotStopped THEN w.stopped[b] ELSE BH_RUNNING
    ELSE r

\* Sequence::update() / MockBehavior::update(): the returned status, r for
\* a leaf.
updateResult(w, b, r) ==
    IF w.bh[b].kind = "Sequence" THEN BH_RUNNING
    ELSE r

\* The side effect of update().
update(w, b) ==
    IF w.bh[b].kind = "Sequence" THEN w
    ELSE [w EXCEPT !.bh[b].m_iUpdateCalled = @ + 1]

\* Behavior::onTerminate() (empty) / MockBehavior::onTerminate()
onTerminate(w, b, s) ==
    IF w.bh[b].kind = "Sequence" THEN w
    ELSE [w EXCEPT !.bh[b].m_iTerminateCalled = @ + 1,
                   !.bh[b].m_eTerminateStatus = s]

\* Behavior::tick() of bt4.
tick(w, b, r) ==
    LET w1 == IF w.bh[b].m_eStatus = BH_INVALID THEN onInitialize(w, b)
              ELSE w
        s  == updateResult(w1, b, r)
        w2 == [update(w1, b) EXCEPT !.bh[b].m_eStatus = s,
                                    !.tickedInFrame[b] = @ + 1]
    IN  IF s # BH_RUNNING THEN onTerminate(w2, b, s) ELSE w2

\* BehaviorTree::step() that puts the behavior back in the queue after its
\* observer was called.
step_NotifyAndRequeue(w, r) ==
    LET current == Head(w.q)
        w1 == [w EXCEPT !.q = Tail(@)]
        w2 == tick(w1, current, r)
    IN  IF current = NULL THEN w1
        ELSE IF w2.bh[current].m_eStatus # BH_RUNNING
                /\ w2.bh[current].m_Observer # NULL
             THEN [Notify(w2, current, w2.bh[current].m_eStatus) EXCEPT
                      !.q = Append(@, current)]
             ELSE [w2 EXCEPT !.q = Append(@, current)]

\* BehaviorTree::step() that puts a running behavior back at the front.
step_Requeue_Front(w, r) ==
    LET current == Head(w.q)
        w1 == [w EXCEPT !.q = Tail(@)]
        w2 == tick(w1, current, r)
    IN  IF current = NULL THEN w1
        ELSE IF w2.bh[current].m_eStatus # BH_RUNNING
                /\ w2.bh[current].m_Observer # NULL
             THEN Notify(w2, current, w2.bh[current].m_eStatus)
             ELSE [w2 EXCEPT !.q = <<current>> \o @]

\* BehaviorTree::step(); it returns false iff the popped entry is NULL. An
\* ASSERT that fails in the observer aborts the program before anything
\* else is done.
step(w, r) ==
    LET current == Head(w.q)
        w1 == [w EXCEPT !.q = Tail(@)]
        w2 == tick(w1, current, r)
    IN  IF current = NULL THEN w1
        ELSE IF w2.bh[current].m_eStatus # BH_RUNNING
                /\ w2.bh[current].m_Observer # NULL
             THEN Notify(w2, current, w2.bh[current].m_eStatus)
             ELSE [w2 EXCEPT !.q = Append(@, current)]

\* The scheduler's state after a method has run.
Becomes(w) ==
    /\ bh' = w.bh
    /\ m_Behaviors' = w.q
    /\ fault' = w.fault
    /\ startCount' = w.startCount
    /\ startedInFrame' = w.startedInFrame
    /\ tickedInFrame' = w.tickedInFrame
    /\ stopped' = w.stopped
    /\ observed' = w.observed
    /\ passed' = w.passed

\* Values a leaf's update() returns: any terminal or non-terminal value of
\* bt4::Status.
ReturnStatuses4 == {BH_SUCCESS, BH_FAILURE, BH_RUNNING, BH_SUSPENDED}

\* Results the host passes to stop().
StopResults == {BH_SUCCESS, BH_FAILURE}

\* A polling composite that is never ticked.
PollIdle ==
    /\ kind = "Sequence"
    /\ m_Children = <<MockBehavior>>
    /\ m_CurrentChild = 0
    /\ m_eStatus = BH_INVALID
    /\ ret = BH_INVALID
    /\ tickLog = << >>
    /\ nTicks = 0
    /\ t = MockBehavior
    /\ tTicks = 0

\* BehaviorTree bt; and the behaviors of one of the trees.
EvInit ==
    /\ bh \in Trees
    /\ m_Behaviors = << >>
    /\ inTick = FALSE
    /\ fault = "none"
    /\ hostCalls = 0
    /\ startCount = [b \in DOMAIN bh |-> 0]
    /\ startedInFrame = {}
    /\ tickedInFrame = [b \in DOMAIN bh |-> 0]
    /\ queuedAtTick = {}
    /\ statusAtTick = [b \in DOMAIN bh |-> BH_INVALID]
    /\ stopped = [b \in DOMAIN bh |-> NotStopped]
    /\ observed = [b \in DOMAIN bh |-> << >>]
    /\ passed = [b \in DOMAIN bh |-> NULL]
    /\ cancelled = NULL
    /\ PollIdle
    /\ ShIdle
    /\ ArIdle

\* The host runs between the scheduler's tick() calls, while the program
\* has not aborted.
HostTurn == ~inTick /\ fault = "none" /\ hostCalls < MaxHostCalls

\* bt.start(b) or bt.start(b, &observer), called by the host on a behavior
\* that no Sequence owns.
Start ==
    /\ HostTurn
    /\ \E b \in Roots, observer \in {NULL, HostObserver} :
          Becomes(start(World, b, observer))
    /\ hostCalls' = hostCalls + 1
    /\ UNCHANGED <<inTick, queuedAtTick, statusAtTick, cancelled, pollVars,
                   shVars, arVars>>

\* bt.stop(b, result), called by the host on a behavior it has started.
Stop ==
    /\ HostTurn
    /\ \E b \in Roots, result \in StopResults :
          /\ startCount[b] > 0
          /\ Becomes(stop(World, b, result))
    /\ hostCalls' = hostCalls + 1
    /\ UNCHANGED <<inTick, queuedAtTick, statusAtTick, cancelled, pollVars,
                   shVars, arVars>>

\* BehaviorTree::tick() up to its loop: the end-of-update marker is pushed.
TickBegin ==
    /\ HostTurn
    /\ m_Behaviors' = Append(m_Behaviors, NULL)
    /\ inTick' = TRUE
    /\ hostCalls' = hostCalls + 1
    /\ startedInFrame' = {}
    /\ tickedInFrame' = [b \in Ids |-> 0]
    /\ queuedAtTick' = {m_Behaviors[k] : k \in DOMAIN m_Behaviors}
    /\ statusAtTick' = [b \in Ids |-> bh[b].m_eStatus]
    /\ UNCHANGED <<bh, fault, startCount, stopped, observed, passed,
                   cancelled, pollVars, shVars, arVars>>

\* One iteration of while (step()) in BehaviorTree::tick(); the loop, and
\* with it tick(), ends when step() has popped the marker. r is the value
\* update() returns if the popped behavior is a leaf.
Step ==
    /\ inTick
    /\ fault = "none"
    /\ \E r \in ReturnStatuses4 : Becomes(step(World, r))
    /\ inTick' = (Head(m_Behaviors) # NULL)
    /\ UNCHANGED <<hostCalls, queuedAtTick, statusAtTick, cancelled, pollVars,
                   shVars, arVars>>

EvNext ==
    \/ Start
    \/ Stop
    \/ TickBegin
    \/ Step

SpecEvent == EvInit /\ [][EvNext]_vars

\* bt.start(root) or bt.start(root, &observer) of a host that only starts
\* and ticks: the root Sequence of a tree any number of times, a free leaf
\* once.
StartRoot ==
    /\ HostTurn
    /\ \E b \in Roots, observer \in {NULL, HostObserver} :
          /\ bh[b].kind = "Sequence" \/ startCount[b] = 0
          /\ Becomes(start(World, b, observer))
    /\ hostCalls' = hostCalls + 1
    /\ UNCHANGED <<inTick, queuedAtTick, statusAtTick, cancelled, pollVars,
                   shVars, arVars>>

EvRunNext ==
    \/ StartRoot
    \/ TickBegin
    \/ Step

\* The scheduler driven only by start(root) and tick().
SpecEventRun == EvInit /\ [][EvRunNext]_vars

\* The same host, with the while (step()) loop of a tick() call that has
\* begun going on for as long as it can.
SpecEventRunLive == EvInit /\ [][EvRunNext]_vars /\ WF_vars(Step)

\* update() of a leaf written by the host that cancels itself: it calls
\* m_pBehaviorTree->stop(*this, result) before it returns.
updateStopsSelf(w, b, result) == stop(update(w, b), b, result)

\* Behavior::tick() of a leaf whose update() cancels itself and then
\* returns BH_RUNNING.
tickStopsSelf(w, b, result) ==
    LET w1 == IF w.bh[b].m_eStatus = BH_INVALID THEN onInitialize(w, b)
              ELSE w
        s  == BH_RUNNING
        w2 == [updateStopsSelf(w1, b, result) EXCEPT
                  !.bh[b].m_eStatus = s,
                  !.tickedInFrame[b] = @ + 1]
    IN  IF s # BH_RUNNING THEN onTerminate(w2, b, s) ELSE w2

\* BehaviorTree::step() when the front entry is such a leaf.
stepStopsSelf(w, result) ==
    LET current == Head(w.q)
        w1 == [w EXCEPT !.q = Tail(@)]
        w2 == tickStopsSelf(w1, current, result)
    IN  IF w2.bh[current].m_eStatus # BH_RUNNING
           /\ w2.bh[current].m_Observer # NULL
        THEN Notify(w2, current, w2.bh[current].m_eStatus)
        ELSE [w2 EXCEPT !.q = Append(@, current)]

\* One iteration of while (step()) that ticks a leaf whose update() calls
\* stop() on the leaf itself.
StepStopsSelf ==
    /\ inTick
    /\ fault = "none"
    /\ Head(m_Behaviors) \in Leaves
    /\ \E result \in StopResults : Becomes(stepStopsSelf(World, result))
    /\ cancelled' = Head(m_Behaviors)
    /\ UNCHANGED <<inTick, hostCalls, queuedAtTick, statusAtTick, pollVars,
                   shVars, arVars>>

\* The run is followed up to the first leaf that cancels itself.
EvCancelNext ==
    \/ cancelled = NULL /\ StartRoot
    \/ cancelled = NULL /\ TickBegin
    \/ cancelled = NULL /\ Step
    \/ cancelled = NULL /\ StepStopsSelf

\* The scheduler with leaves that may cancel themselves in update().
SpecEventCancel == EvInit /\ [][EvCancelNext]_vars

(***************************************************************************)
(* bt1 and bt4 side by side: a polling Sequence of n MockBehavior children *)
(* and an event-driven Sequence of n MockBehavior leaves, given the same   *)
(* leaf results frame by frame.                                            *)
(***************************************************************************)
\* The event-driven Sequence; its leaves are the behaviors 2 .. n+1, leaf
\* i + 1 standing beside child i of the polling Sequence.
LockRoot == 1

RECURSIVE runSteps(_, _)

\* BehaviorTree::tick() that calls step() once instead of looping.
tickFrame_SingleStep(w, results) ==
    step([w EXCEPT !.q = Append(@, NULL)],
         results[Head(Append(w.q, NULL))])

\* BehaviorTree::tick() as one piece: the marker is pushed and step() is
\* called until it pops the marker. results[b] is what update() of leaf b
\* returns in this frame.
tickFrame(w, results) == runSteps([w EXCEPT !.q = Append(@, NULL)], results)

\* while (step()) continue; which a failed ASSERT cuts short.
runSteps(w, results) ==
    IF w.fault # "none" THEN w
    ELSE IF Head(w.q) = NULL THEN step(w, BH_RUNNING)
    ELSE runSteps(step(w, results[Head(w.q)]), results)

\* MockSequence seq(n); of bt1, and BehaviorTree bt; with a bt4 Sequence of
\* n MockBehavior leaves.
LockInit ==
    /\ kind = "Sequence"
    /\ \E n \in 1..MaxChildren :
          /\ m_Children = [i \in 1..n |-> MockBehavior]
          /\ bh = [b \in 1..(n + 1) |->
                     IF b = LockRoot
                     THEN SequenceOf([i \in 1..n |-> i + 1])
                     ELSE Mock]
    /\ m_CurrentChild = 0
    /\ m_eStatus = BH_INVALID
    /\ ret = BH_INVALID
    /\ tickLog = << >>
    /\ nTicks = 0
    /\ t = MockBehavior
    /\ tTicks = 0
    /\ m_Behaviors = << >>
    /\ inTick = FALSE
    /\ fault = "none"
    /\ hostCalls = 0
    /\ startCount = [b \in DOMAIN bh |-> 0]
    /\ startedInFrame = {}
    /\ tickedInFrame = [b \in DOMAIN bh |-> 0]
    /\ queuedAtTick = {}
    /\ statusAtTick = [b \in DOMAIN bh |-> BH_INVALID]
    /\ stopped = [b \in DOMAIN bh |-> NotStopped]
    /\ observed = [b \in DOMAIN bh |-> << >>]
    /\ passed = [b \in DOMAIN bh |-> NULL]
    /\ cancelled = NULL
    /\ ShIdle
    /\ ArIdle

\* bt.start(seq) or bt.start(seq, &observer), once, before the first frame.
LockStart ==
    /\ startCount[LockRoot] = 0
    /\ \E observer \in {NULL, HostObserver} :
          Becomes(start(World, LockRoot, observer))
    /\ hostCalls' = hostCalls + 1
    /\ UNCHANGED <<inTick, queuedAtTick, statusAtTick, cancelled, pollVars,
                   shVars, arVars>>

\* One frame of both hosts: each child i of the polling Sequence and leaf
\* i + 1 of the scheduler are given the same m_eReturnStatus, then
\* seq.tick() is called on the polling Sequence and bt.tick() on the
\* scheduler. The frames go on until the polling Sequence has terminated.
LockFrame ==
    /\ startCount[LockRoot] = 1
    /\ fault = "none"
    /\ Tickable(m_eStatus)
    /\ nTicks < MaxTicks
    /\ \E script \in [1..Len(m_Children) -> ReturnStatuses1] :
          /\ LET kids == [i \in 1..Len(m_Children) |->
                            [m_Children[i] EXCEPT
                                !.m_eReturnStatus = script[i]]]
                 cur  == IF m_eStatus = BH_INVALID THEN CompositeOnInitialize
                         ELSE m_CurrentChild
                 r    == SequenceUpdate(kids, cur, << >>)
             IN  /\ m_Children' = r.kids
                 /\ m_CurrentChild' = r.cur
                 /\ m_eStatus' = r.ret
                 /\ ret' = r.ret
                 /\ tickLog' = r.log
          /\ Becomes(tickFrame(
                         [World EXCEPT !.startedInFrame = {},
                                       !.tickedInFrame = [b \in Ids |-> 0]],
                         [b \in Ids |-> IF b = LockRoot THEN BH_RUNNING
                                        ELSE script[b - 1]]))
    /\ nTicks' = nTicks + 1
    /\ hostCalls' = hostCalls + 1
    /\ queuedAtTick' = {m_Behaviors[k] : k \in DOMAIN m_Behaviors}
    /\ statusAtTick' = [b \in Ids |-> bh[b].m_eStatus]
    /\ UNCHANGED <<kind, t, tTicks, inTick, cancelled, shVars, arVars>>

LockNext ==
    \/ LockStart
    \/ LockFrame

\* The polling Sequence and the scheduler run frame by frame on the same
\* leaf results.
SpecLockstep == LockInit /\ [][LockNext]_vars

(***************************************************************************)
(* bt2: the Node/Task tree of BehaviorTreeShared.cpp                       *)
(***************************************************************************)
\* The host's Behavior bh, as opposed to the m_CurrentBehavior (Sequence)
\* or m_Behavior (Selector) member of task k, which is handle k.
HostHandle == 0

\* The MockComposite node; its MockNode children are the nodes 1..size.
CompositeNode == MaxChildren + 1

\* Behavior::Behavior()
Unbound == [m_pTask |-> NULL, m_pNode |-> NULL, m_eStatus |-> BH_INVALID]

\* MockTask::MockTask(node) and Sequence::Sequence(node) /
\* Selector::Selector(node), created for handle owner. destroyed counts
\* the destroy() calls that were passed the task, destroyedBy is the node
\* of the last one, and updatedAfterDestroy counts the update() calls made
\* after a destroy().
NewTask(node, class, owner) ==
    [class               |-> class,
     m_pNode             |-> node,
     owner               |-> owner,
     m_iInitializeCalled |-> 0,
     m_iTerminateCalled  |-> 0,
     m_iUpdateCalled     |-> 0,
     m_eReturnStatus     |-> BH_RUNNING,
     m_eTerminateStatus  |-> BH_INVALID,
     m_CurrentChild      |-> 0,
     m_CurrentBehavior   |-> Unbound,
     destroyed           |-> 0,
     destroyedBy         |-> NULL,
     updatedAfterDestroy |-> 0]

\* The objects the methods of bt2 work on; ret is the value returned by
\* the last tick() or update().
World2 ==
    [handle |-> handle, tasks |-> tasks, m_pTask |-> m_pTask,
     aborted |-> aborted, ret |-> BH_INVALID]

\* The Behavior object that h names.
HandleOf(w, h) ==
    IF h = HostHandle THEN w.handle ELSE w.tasks[h].m_CurrentBehavior

SetHandle(w, h, b) ==
    IF h = HostHandle THEN [w EXCEPT !.handle = b]
    ELSE [w EXCEPT !.tasks[h].m_CurrentBehavior = b]

\* MockComposite::create() / MockNode::create(), called by the setup() of
\* handle h; the new task is the last of w.tasks.
create(w, node, h) ==
    LET id == Len(w.tasks) + 1
    IN  IF node = CompositeNode
        THEN [w EXCEPT !.tasks = Append(@, NewTask(node, taskClass, h))]
        ELSE [w EXCEPT !.tasks = Append(@, NewTask(node, "MockTask", h)),
                       !.m_pTask[node] = id]

RECURSIVE destroy(_, _, _)

\* m_pTask = NULL; of handle h.
Unbind(w, h) == SetHandle(w, h, [HandleOf(w, h) EXCEPT !.m_pTask = NULL])

\* Behavior::teardown() that leaves m_pTask set.
teardown_KeepTask(w, h) ==
    LET b == HandleOf(w, h)
    IN  IF b.m_pTask = NULL THEN w
        ELSE IF b.m_eStatus = BH_RUNNING THEN [w EXCEPT !.aborted = TRUE]
        ELSE destroy(w, b.m_pNode, b.m_pTask)

\* Behavior::teardown()
teardown(w, h) ==
    LET b == HandleOf(w, h)
    IN  IF b.m_pTask = NULL THEN w
        ELSE IF b.m_eStatus = BH_RUNNING THEN [w EXCEPT !.aborted = TRUE]
        ELSE Unbind(destroy(w, b.m_pNode, b.m_pTask), h)

\* Behavior::~Behavior() that tears down with the status it has.
DestroyBehavior_KeepStatus(w, h) ==
    teardown(w, h)

\* Behavior::~Behavior()
DestroyBehavior(w, h) ==
    teardown(SetHandle(w, h, [HandleOf(w, h) EXCEPT
                                 !.m_eStatus = BH_INVALID]), h)

\* MockComposite::destroy(task), which deletes the task and so runs the
\* destructor of its Behavior member, and MockNode::destroy(task), which
\* does nothing.
destroy(w, node, task) ==
    IF node = CompositeNode
    THEN DestroyBehavior([w EXCEPT !.tasks[task].destroyed = @ + 1,
                                   !.tasks[task].destroyedBy = node], task)
    ELSE [w EXCEPT !.tasks[task].destroyed = @ + 1,
                   !.tasks[task].destroyedBy = node]

\* m_pNode = &node; m_pTask = node.create(); of handle h, unless the
\* ASSERT of teardown() has failed.
Bind(w, h, node) ==
    IF w.aborted THEN w
    ELSE SetHandle(create(w, node, h), h,
                   [HandleOf(w, h) EXCEPT !.m_pTask = Len(w.tasks) + 1,
                                          !.m_pNode = node])

\* Behavior::setup()
setup(w, h, node) == Bind(teardown(w, h), h, node)

\* Sequence::onInitialize() / Selector::onInitialize() /
\* MockTask::onInitialize()
TaskOnInitialize(w, task) ==
    IF w.tasks[task].class = "MockTask"
    THEN [w EXCEPT !.tasks[task].m_iInitializeCalled = @ + 1]
    ELSE setup([w EXCEPT !.tasks[task].m_CurrentChild = 1], task, 1)

\* Task::onTerminate() (empty) / MockTask::onTerminate()
TaskOnTerminate(w, task, s) ==
    IF w.tasks[task].class = "MockTask"
    THEN [w EXCEPT !.tasks[task].m_iTerminateCalled = @ + 1,
                   !.tasks[task].m_eTerminateStatus = s]
    ELSE w

\* MockTask::update()
MockTaskUpdate(w, task) ==
    [w EXCEPT !.tasks[task].m_iUpdateCalled = @ + 1,
              !.tasks[task].updatedAfterDestroy =
                  IF w.tasks[task].destroyed > 0 THEN @ + 1 ELSE @,
              !.ret = w.tasks[task].m_eReturnStatus]

\* The status on which a composite goes on to its next child: BH_SUCCESS
\* in Sequence::update(), BH_FAILURE in Selector::update().
Continuing(class) == IF class = "Sequence" THEN BH_SUCCESS ELSE BH_FAILURE

RECURSIVE CompositeUpdate(_, _)

\* Behavior::tick(): if (m_eStatus == BH_INVALID) m_pTask->onInitialize();
TickInitialize(w, h) ==
    IF HandleOf(w, h).m_eStatus = BH_INVALID
    THEN TaskOnInitialize(w, HandleOf(w, h).m_pTask)
    ELSE w

\* Behavior::tick(): m_pTask->update(), whose result is left in ret.
TickUpdate(w, h) ==
    IF w.tasks[HandleOf(w, h).m_pTask].class = "MockTask"
    THEN MockTaskUpdate(w, HandleOf(w, h).m_pTask)
    ELSE CompositeUpdate(w, HandleOf(w, h).m_pTask)

\* Behavior::tick(): m_eStatus = the result of update(), onTerminate() if
\* it is not BH_RUNNING, and return m_eStatus.
TickStatus(w, h) ==
    IF w.ret # BH_RUNNING
    THEN TaskOnTerminate(
             SetHandle(w, h, [HandleOf(w, h) EXCEPT !.m_eStatus = w.ret]),
             HandleOf(w, h).m_pTask, w.ret)
    ELSE SetHandle(w, h, [HandleOf(w, h) EXCEPT !.m_eStatus = w.ret])

\* Behavior::tick() of handle h, which is bound to a task.
BehaviorTick(w, h) == TickStatus(TickUpdate(TickInitialize(w, h), h), h)

\* Sequence::update() / Selector::update(): what follows the tick of the
\* current child in one iteration of the for (;;) loop.
CompositeAdvance(w, task) ==
    LET next == w.tasks[task].m_CurrentChild + 1
    IN  IF w.ret # Continuing(w.tasks[task].class) THEN w
        ELSE IF next = size + 1
             THEN [w EXCEPT !.tasks[task].m_CurrentChild = next]
             ELSE CompositeUpdate(
                      setup([w EXCEPT !.tasks[task].m_CurrentChild = next],
                            task, next),
                      task)

\* Sequence::update() / Selector::update() of the composite task.
CompositeUpdate(w, task) == CompositeAdvance(BehaviorTick(w, task), task)

\* The state of bt2 after a method has run.
Becomes2(w) ==
    /\ handle' = w.handle
    /\ tasks' = w.tasks
    /\ m_pTask' = w.m_pTask
    /\ aborted' = w.aborted

\* The host's call op, made on bh in the current state.
Call(op) ==
    [op |-> op, m_eStatus |-> handle.m_eStatus,
     bound |-> handle.m_pTask # NULL]

\* The event-driven scheduler is not used.
EvIdle ==
    /\ bh = << >>
    /\ m_Behaviors = << >>
    /\ inTick = FALSE
    /\ fault = "none"
    /\ hostCalls = 0
    /\ startCount = << >>
    /\ startedInFrame = {}
    /\ tickedInFrame = << >>
    /\ queuedAtTick = {}
    /\ statusAtTick = << >>
    /\ stopped = << >>
    /\ observed = << >>
    /\ passed = << >>
    /\ cancelled = 0

\* MockSequence seq(size); or MockSelector sel(size); and Behavior bh(seq);
\* whose constructor calls setup().
ShInit ==
    /\ taskClass \in {"Sequence", "Selector"}
    /\ size \in 1..MaxChildren
    /\ LET w == setup([handle |-> Unbound, tasks |-> << >>,
                       m_pTask |-> [i \in 1..size |-> NULL],
                       aborted |-> FALSE, ret |-> BH_INVALID],
                      HostHandle, CompositeNode)
       IN  /\ handle = w.handle
           /\ tasks = w.tasks
           /\ m_pTask = w.m_pTask
           /\ aborted = w.aborted
    /\ alive = TRUE
    /\ lastCall = Call("Behavior")
    /\ handleCalls = 0
    /\ PollIdle
    /\ EvIdle
    /\ ArIdle

\* The host uses bh while it is in scope and the program has not aborted.
HandleTurn == alive /\ ~aborted /\ handleCalls < MaxHandleCalls

\* bh.tick(), under the tick contract.
TickHandle ==
    /\ HandleTurn
    /\ handle.m_pTask # NULL
    /\ Tickable(handle.m_eStatus)
    /\ Becomes2(BehaviorTick(World2, HostHandle))
    /\ lastCall' = Call("tick")
    /\ handleCalls' = handleCalls + 1
    /\ UNCHANGED <<taskClass, size, alive, pollVars, evVars, arVars>>

\* seq[i].m_eReturnStatus = s, which needs the task of child i to exist.
SetTaskReturn ==
    /\ alive /\ ~aborted
    /\ \E i \in 1..size, s \in ReturnStatuses1 :
          /\ m_pTask[i] # NULL
          /\ tasks' = [tasks EXCEPT ![m_pTask[i]].m_eReturnStatus = s]
    /\ UNCHANGED <<taskClass, size, handle, alive, m_pTask, aborted,
                   lastCall, handleCalls, pollVars, evVars, arVars>>

\* bh.teardown()
TeardownHandle ==
    /\ HandleTurn
    /\ Becomes2(teardown(World2, HostHandle))
    /\ lastCall' = Call("teardown")
    /\ handleCalls' = handleCalls + 1
    /\ UNCHANGED <<taskClass, size, alive, pollVars, evVars, arVars>>

\* bh.setup(seq)
SetupHandle ==
    /\ HandleTurn
    /\ Becomes2(setup(World2, HostHandle, CompositeNode))
    /\ lastCall' = Call("setup")
    /\ handleCalls' = handleCalls + 1
    /\ UNCHANGED <<taskClass, size, alive, pollVars, evVars, arVars>>

\* bh goes out of scope: Behavior::~Behavior().
DestroyHandle ==
    /\ alive /\ ~aborted
    /\ Becomes2(DestroyBehavior(World2, HostHandle))
    /\ lastCall' = Call("~Behavior")
    /\ alive' = FALSE
    /\ UNCHANGED <<taskClass, size, handleCalls, pollVars, evVars, arVars>>

ShNext ==
    \/ TickHandle
    \/ SetTaskReturn
    \/ TeardownHandle
    \/ SetupHandle
    \/ DestroyHandle

SpecShared == ShInit /\ [][ShNext]_vars

(***************************************************************************)
(* bt3: the arena of BehaviorTreeOptimized.cpp                             *)
(***************************************************************************)
\* The size in bytes of BehaviorTree::m_pBuffer.
k_MaxBehaviorTreeMemory == 8192

k_MaxChildrenPerComposite == 7

\* std::numeric_limits<uint16_t>::max()
UINT16_MAX == 65535

\* static_cast<uint16_t>(p) of a ptrdiff_t p, negative or not.
ToUint16(p) == p % (UINT16_MAX + 1)

\* sizeof(T) of the types the host allocates; allocate<T>() takes any
\* default-constructible T.
RecordSizes == {2048, 4096}

\* BehaviorTree::allocate<T>() that advances the offset before it constructs
\* the object.
allocate_AdvanceFirst(class, sz) ==
    /\ objects' = Append(objects,
                         [offset |-> m_iOffset + sz, size |-> sz,
                          class |-> class])
    /\ m_iOffset' = m_iOffset + sz
    /\ arenaFault' = IF m_iOffset + sz < k_MaxBehaviorTreeMemory
                     THEN "none"
                     ELSE "allocate"

\* BehaviorTree::allocate<T>(), sizeof(T) = sz: the object is constructed
\* at the current offset, the offset advances, and then the ASSERT is made.
allocate(class, sz) ==
    /\ objects' = Append(objects,
                         [offset |-> m_iOffset, size |-> sz,
                          class |-> class])
    /\ m_iOffset' = m_iOffset + sz
    /\ arenaFault' = IF m_iOffset + sz < k_MaxBehaviorTreeMemory
                     THEN "none"
                     ELSE "allocate"

\* Composite::getChild(index), index counted from 1 here: the address, as
\* an offset in the buffer, of the Behavior it returns.
getChild(index) == objects[composite].offset + m_ChildOffsets[index]

\* BehaviorTree bt;
ArInit ==
    /\ m_iOffset = 0
    /\ objects = << >>
    /\ composite = 0
    /\ m_ChildOffsets = << >>
    /\ m_ChildCount = 0
    /\ added = << >>
    /\ arenaFault = "none"
    /\ PollIdle
    /\ EvIdle
    /\ ShIdle

\* bt.allocate<T>() of a T that is not the composite.
AllocateBehavior ==
    /\ arenaFault = "none"
    /\ \E sz \in RecordSizes : allocate("MockBehavior", sz)
    /\ UNCHANGED <<composite, m_ChildOffsets, m_ChildCount, added,
                   pollVars, evVars, shVars>>

\* bt.allocate<MockSequence>(): Composite::Composite() sets m_ChildCount.
\* The host builds one composite.
AllocateComposite ==
    /\ arenaFault = "none"
    /\ composite = 0
    /\ \E sz \in RecordSizes : allocate("MockSequence", sz)
    /\ composite' = Len(objects) + 1
    /\ m_ChildCount' = 0
    /\ UNCHANGED <<m_ChildOffsets, added, pollVars, evVars, shVars>>

\* Composite::addChild(child) whose first ASSERT lets an eighth child in.
AddChild_EightChildren ==
    /\ arenaFault = "none"
    /\ composite # 0
    /\ \E child \in DOMAIN objects \ {composite} :
          LET p == objects[child].offset - objects[composite].offset
          IN  IF m_ChildCount <= k_MaxChildrenPerComposite /\ p < UINT16_MAX
              THEN /\ m_ChildOffsets' = Append(m_ChildOffsets, ToUint16(p))
                   /\ m_ChildCount' = (m_ChildCount + 1) % (UINT16_MAX + 1)
                   /\ added' = Append(added, child)
                   /\ UNCHANGED arenaFault
              ELSE /\ arenaFault' = "addChild"
                   /\ UNCHANGED <<m_ChildOffsets, m_ChildCount, added>>
    /\ UNCHANGED <<m_iOffset, objects, composite, pollVars, evVars, shVars>>

\* Composite::addChild(child) on the composite, for an allocated child.
AddChild ==
    /\ arenaFault = "none"
    /\ composite # 0
    /\ \E child \in DOMAIN objects \ {composite} :
          LET p == objects[child].offset - objects[composite].offset
          IN  IF m_ChildCount < k_MaxChildrenPerComposite /\ p < UINT16_MAX
              THEN /\ m_ChildOffsets' = Append(m_ChildOffsets, ToUint16(p))
                   /\ m_ChildCount' = (m_ChildCount + 1) % (UINT16_MAX + 1)
                   /\ added' = Append(added, child)
                   /\ UNCHANGED arenaFault
              ELSE /\ arenaFault' = "addChild"
                   /\ UNCHANGED <<m_ChildOffsets, m_ChildCount, added>>
    /\ UNCHANGED <<m_iOffset, objects, composite, pollVars, evVars, shVars>>

ArNext ==
    \/ AllocateBehavior
    \/ AllocateComposite
    \/ AddChild

SpecArena == ArInit /\ [][ArNext]_vars

(***************************************************************************)
(* Properties of the polling tree (SpecPoll)                               *)
(***************************************************************************)
NumChildren == Len(m_Children)

\* m2 is m after one more tick().
Ticked(m, m2) == m2.m_iUpdateCalled = m.m_iUpdateCalled + 1

InitializeCalls(m) ==
    Cardinality({k \in DOMAIN m.calls : m.calls[k] = "onInitialize"})

C1Tick(m, m2) ==
    /\ Ticked(m, m2) /\ m.m_eStatus = BH_INVALID =>
          /\ m2.m_iInitializeCalled = m.m_iInitializeCalled + 1
          /\ InitializeCalls(m2) = 1
          /\ m2.calls[1] = "onInitialize"
          /\ m2.calls[2] = "update"
    /\ Ticked(m, m2) /\ m.m_eStatus = BH_RUNNING =>
          /\ m2.m_iInitializeCalled = m.m_iInitializeCalled
          /\ InitializeCalls(m2) = 0
    /\ ~Ticked(m, m2) => m2.m_iInitializeCalled = m.m_iInitializeCalled

\* C1: the first tick() of a behavior whose status is BH_INVALID calls
\* onInitialize() exactly once and before update(); a tick() made while the
\* status is BH_RUNNING does not call onInitialize().
C1_InitializeOnceBeforeUpdate ==
    [][/\ C1Tick(t, t')
       /\ \A i \in 1..NumChildren : C1Tick(m_Children[i], m_Children'[i])]_vars

\* A behavior was initialized by its first tick and ticked again while
\* running, and a child of the composite was initialized.
C1_Witness ==
    /\ t.m_iInitializeCalled = 1 /\ t.m_iUpdateCalled >= 2
    /\ t.m_eStatus = BH_RUNNING
    /\ \E i \in 1..NumChildren :
          /\ m_Children[i].m_iInitializeCalled = 1
          /\ m_Children[i].m_iUpdateCalled >= 1

\* C3: a Sequence returns BH_FAILURE in the tick in which its current child
\* returns BH_FAILURE, and no child after the failing one is ever
\* initialized or updated.
C3_SequenceFailsFast ==
    kind = "Sequence" =>
       \A i \in 1..NumChildren :
          m_Children[i].m_eStatus = BH_FAILURE =>
             /\ ret = BH_FAILURE
             /\ \A j \in (i+1)..NumChildren :
                   /\ m_Children[j].m_iInitializeCalled = 0
                   /\ m_Children[j].m_iUpdateCalled = 0

\* A child that is neither the first nor the last has failed.
C3_Witness ==
    /\ kind = "Sequence"
    /\ \E i \in 2..(NumChildren - 1) :
          /\ m_Children[i].m_eStatus = BH_FAILURE
          /\ m_Children[i].m_iTerminateCalled = 1

\* C4: a Sequence returns BH_SUCCESS only when each of its children has
\* returned BH_SUCCESS, child i+1 is ticked only after child i has returned
\* BH_SUCCESS, and any other tick returns the status (BH_RUNNING or
\* BH_FAILURE) of the child at the cursor.
C4_SequenceSuccess ==
    kind = "Sequence" =>
       /\ ret = BH_SUCCESS =>
             \A i \in 1..NumChildren :
                /\ m_Children[i].m_eStatus = BH_SUCCESS
                /\ m_Children[i].m_eTerminateStatus = BH_SUCCESS
                /\ m_Children[i].m_iTerminateCalled = 1
       /\ \A i \in 1..(NumChildren - 1) :
             m_Children[i+1].m_iUpdateCalled > 0 =>
                m_Children[i].m_eStatus = BH_SUCCESS
       /\ nTicks > 0 /\ ret # BH_SUCCESS =>
             /\ ret \in {BH_RUNNING, BH_FAILURE}
             /\ m_CurrentChild \in 1..NumChildren
             /\ ret = m_Children[m_CurrentChild].m_eStatus

\* A Sequence of three children has succeeded.
C4_Witness ==
    /\ kind = "Sequence"
    /\ NumChildren >= 3
    /\ ret = BH_SUCCESS

\* The child ticked by entry k of the log of the last tick returned
\* BH_SUCCESS and is not the last child.
Handover(log, k) ==
    /\ log[k][2] = BH_SUCCESS
    /\ log[k][1] < NumChildren

HandoverCounts(c) ==
    /\ m_Children'[c].m_iTerminateCalled = m_Children[c].m_iTerminateCalled + 1
    /\ m_Children'[c].m_iTerminateCalled = 1
    /\ m_Children[c+1].m_iInitializeCalled = 0
    /\ m_Children'[c+1].m_iInitializeCalled = 1
    /\ m_Children'[c+1].m_iUpdateCalled = 1

\* C5 as stated: when the current child of a Sequence returns BH_SUCCESS and
\* a further child exists, the same tick terminates the finished child
\* once, initializes the next child once, ticks it once, and returns the
\* next child's status.
C5_HandoverReturnsNextChild ==
    [][kind = "Sequence" /\ nTicks' = nTicks + 1 =>
          \A k \in DOMAIN tickLog' :
             Handover(tickLog', k) =>
                LET c == tickLog'[k][1]
                IN  /\ HandoverCounts(c)
                    /\ ret' = m_Children'[c+1].m_eStatus]_vars

\* C5 amended: as above, but the Sequence returns the next child's status
\* only if that status is BH_RUNNING or BH_FAILURE or the next child is the
\* last one; if the next child returns BH_SUCCESS and is not the last, the
\* same tick hands over again.
C5_HandoverSameTick ==
    [][kind = "Sequence" /\ nTicks' = nTicks + 1 =>
          \A k \in DOMAIN tickLog' :
             Handover(tickLog', k) =>
                LET c == tickLog'[k][1]
                IN  /\ HandoverCounts(c)
                    /\ k + 1 \in DOMAIN tickLog'
                    /\ tickLog'[k+1][1] = c + 1
                    /\ (\/ m_Children'[c+1].m_eStatus # BH_SUCCESS
                        \/ c + 1 = NumChildren)
                          => ret' = m_Children'[c+1].m_eStatus
                    /\ (/\ m_Children'[c+1].m_eStatus = BH_SUCCESS
                        /\ c + 1 < NumChildren)
                          => Handover(tickLog', k + 1)]_vars

\* The last tick of a Sequence handed over from one child to the next and
\* the next child is still running.
C5_Witness ==
    /\ kind = "Sequence"
    /\ nTicks >= 2
    /\ Len(tickLog) >= 2
    /\ tickLog[1][2] = BH_SUCCESS
    /\ ret = BH_RUNNING

\* C6: a Selector returns BH_SUCCESS in the tick in which its current child
\* returns BH_SUCCESS and never touches a later child; when the current
\* child returns BH_FAILURE the same tick goes on to the next child; it
\* returns BH_FAILURE only when each of its children has returned
\* BH_FAILURE.
C6_SelectorDual ==
    kind = "Selector" =>
       /\ \A i \in 1..NumChildren :
             m_Children[i].m_eStatus = BH_SUCCESS =>
                /\ ret = BH_SUCCESS
                /\ \A j \in (i+1)..NumChildren :
                      /\ m_Children[j].m_iInitializeCalled = 0
                      /\ m_Children[j].m_iUpdateCalled = 0
       /\ \A i \in 1..(NumChildren - 1) :
             m_Children[i].m_eStatus = BH_FAILURE =>
                /\ m_Children[i+1].m_iInitializeCalled = 1
                /\ m_Children[i+1].m_iUpdateCalled >= 1
       /\ \A k \in DOMAIN tickLog :
             tickLog[k][2] = BH_FAILURE /\ tickLog[k][1] < NumChildren =>
                /\ k + 1 \in DOMAIN tickLog
                /\ tickLog[k+1][1] = tickLog[k][1] + 1
       /\ ret = BH_FAILURE =>
             \A i \in 1..NumChildren :
                /\ m_Children[i].m_eStatus = BH_FAILURE
                /\ m_Children[i].m_iTerminateCalled = 1

\* A Selector went past a failed first child and stopped at a succeeding
\* second child, leaving a third one untouched.
C6_Witness ==
    /\ kind = "Selector"
    /\ NumChildren >= 3
    /\ m_Children[1].m_eStatus = BH_FAILURE
    /\ m_Children[2].m_eStatus = BH_SUCCESS
    /\ ret = BH_SUCCESS

\* The composite is ticked by the step being taken.
CompositeTicked == nTicks' = nTicks + 1

\* The status of a child on which the composite goes on to the next one.
ContinuingStatus == IF kind = "Sequence" THEN BH_SUCCESS ELSE BH_FAILURE

\* C25: the cursor of a composite only moves forward. It never decreases
\* and it moves only while the composite is ticked; a tick starts at the
\* first child only if it calls onInitialize() (the status was BH_INVALID)
\* and otherwise at the cursor; within a tick the cursor goes from a child
\* to the next one, and only after that child returned the continuing
\* status (BH_SUCCESS for a Sequence, BH_FAILURE for a Selector); a child
\* before the cursor is never ticked again.
C25_CursorOnlyForward ==
    [][/\ m_CurrentChild' >= m_CurrentChild
       /\ m_CurrentChild' # m_CurrentChild => CompositeTicked
       /\ \A i \in 1..NumChildren :
             i < m_CurrentChild =>
                m_Children'[i].m_iUpdateCalled = m_Children[i].m_iUpdateCalled
       /\ CompositeTicked =>
             /\ tickLog' # << >>
             /\ tickLog'[1][1] = IF m_eStatus = BH_INVALID THEN 1
                                 ELSE m_CurrentChild
             /\ \A k \in 1..(Len(tickLog') - 1) :
                   /\ tickLog'[k][2] = ContinuingStatus
                   /\ tickLog'[k + 1][1] = tickLog'[k][1] + 1
             /\ m_CurrentChild' =
                   IF tickLog'[Len(tickLog')][2] = ContinuingStatus
                   THEN tickLog'[Len(tickLog')][1] + 1
                   ELSE tickLog'[Len(tickLog')][1]]_vars

\* The last tick of a composite of three children found the cursor at the
\* second child, which had been running, and moved it to the third.
C25_Witness ==
    /\ NumChildren = 3
    /\ nTicks >= 2
    /\ tickLog # << >>
    /\ tickLog[1][1] = 2
    /\ m_CurrentChild = 3
    /\ m_Children[2].m_iUpdateCalled >= 2
    /\ ret = BH_RUNNING

(***************************************************************************)
(* Properties of the event-driven scheduler (SpecEvent)                    *)
(***************************************************************************)
\* The last tick() call of the host has returned.
FrameDone == ~inTick /\ fault = "none"

\* b is ticked by the step being taken.
TickedNow(b) == tickedInFrame'[b] = tickedInFrame[b] + 1

\* C2: onTerminate(s) is called in a tick iff update() returned a status s
\* other than BH_RUNNING in that tick, and once per run: a behavior is never
\* terminated more often than it was initialized. Stated for the leaves
\* ticked by the scheduler.
C2_TerminateOncePerRun ==
    /\ [](\A b \in Leaves :
             bh[b].m_iTerminateCalled <= bh[b].m_iInitializeCalled)
    /\ [][\A b \in Leaves :
             /\ TickedNow(b) =>
                   /\ bh'[b].m_iUpdateCalled = bh[b].m_iUpdateCalled + 1
                   /\ (bh'[b].m_eStatus # BH_RUNNING) <=>
                         (bh'[b].m_iTerminateCalled
                             = bh[b].m_iTerminateCalled + 1)
                   /\ bh'[b].m_eStatus # BH_RUNNING =>
                         bh'[b].m_eTerminateStatus = bh'[b].m_eStatus
                   /\ bh'[b].m_eStatus = BH_RUNNING =>
                         bh'[b].m_iTerminateCalled = bh[b].m_iTerminateCalled
             /\ ~TickedNow(b) =>
                   bh'[b].m_iTerminateCalled = bh[b].m_iTerminateCalled]_vars

\* C7: a behavior that was started exactly once and is queued when tick()
\* is called is ticked exactly once by that tick() call: never twice while
\* the call runs, and once when it has returned.
C7_TickedOncePerFrame ==
    \A b \in Ids :
       startCount[b] = 1 /\ b \in queuedAtTick =>
          /\ tickedInFrame[b] <= 1
          /\ FrameDone => tickedInFrame[b] = 1

\* A tick() call has returned that found three behaviors queued, one of
\* them started once, and during which another behavior was started.
C7_Witness ==
    /\ FrameDone
    /\ Cardinality(queuedAtTick) >= 3
    /\ startedInFrame # {}
    /\ \E b \in Ids :
          /\ startCount[b] = 1
          /\ b \in queuedAtTick
          /\ tickedInFrame[b] = 1

\* C8: a behavior whose status is BH_SUCCESS or BH_FAILURE (from its
\* update() or from stop()) when tick() is called is not ticked by that
\* tick() call.
C8_NoTickAfterTerminal ==
    \A b \in Ids :
       statusAtTick[b] \in {BH_SUCCESS, BH_FAILURE} => tickedInFrame[b] = 0

\* C9: after stop(b, result), the status of b is result whenever a tick()
\* call has returned.
C9_StopResultKept ==
    ~inTick =>
       \A b \in Ids :
          stopped[b] # NotStopped => bh[b].m_eStatus = stopped[b]

\* C10: start() puts the behavior at the front of the queue, and a behavior
\* started while a tick() call is in progress has been ticked when that
\* call returns.
C10_StartedInFrameIsTicked ==
    /\ [](FrameDone => \A b \in startedInFrame : tickedInFrame[b] >= 1)
    /\ [][\A b \in Ids :
             startCount'[b] = startCount[b] + 1 =>
                /\ m_Behaviors' # << >>
                /\ Head(m_Behaviors') = b]_vars

\* A tick() call has returned during which a Sequence started its first
\* child from onInitialize and that child, a Sequence too, started its own.
C10_Witness ==
    /\ FrameDone
    /\ Cardinality(startedInFrame) >= 2
    /\ \A b \in startedInFrame : tickedInFrame[b] = 1

\* The observer of b is called by the step being taken, with FiredWith(b).
Fired(b) == Len(observed'[b]) = Len(observed[b]) + 1

FiredWith(b) == observed'[b][Len(observed'[b])]

\* The observer of b, if it has one, is called with s by the step being
\* taken, which leaves b with status s.
Completes(b, s) ==
    /\ bh'[b].m_eStatus = s
    /\ bh[b].m_Observer # NULL => Fired(b) /\ FiredWith(b) = s

\* C11: when a leaf terminates during a tick() call, the completion
\* cascades at once: in the step in which a child reports Failure its
\* parent Sequence is given Failure, in the step in which the last child
\* reports Success the parent is given Success, in the step in which
\* another child reports Success the next sibling is started at the front
\* of the queue, each parent reports to its own observer in that same step,
\* and every behavior started during the call has been ticked when the
\* call returns.
C11_CascadeWithinFrame ==
    /\ [](FrameDone => \A b \in startedInFrame : tickedInFrame[b] >= 1)
    /\ [][/\ \A c \in Leaves :
                TickedNow(c) /\ bh'[c].m_eStatus \in {BH_SUCCESS, BH_FAILURE}
                   => Completes(c, bh'[c].m_eStatus)
           /\ \A p \in Ids : \A k \in DOMAIN bh[p].m_Children :
                LET d == bh[p].m_Children[k]
                IN  Fired(d) /\ bh[d].m_Observer = p =>
                       /\ FiredWith(d) = BH_FAILURE =>
                             Completes(p, BH_FAILURE)
                       /\ FiredWith(d) = BH_SUCCESS
                          /\ k = Len(bh[p].m_Children) =>
                             Completes(p, BH_SUCCESS)
                       /\ FiredWith(d) = BH_SUCCESS
                          /\ k < Len(bh[p].m_Children) =>
                             LET n == bh[p].m_Children[k + 1]
                             IN  /\ startCount'[n] = startCount[n] + 1
                                 /\ n \in startedInFrame'
                                 /\ Head(m_Behaviors') = n]_vars

\* A tick() call has returned in which a Sequence was started by its
\* parent, completed through its own child and completed its parent with
\* the same status.
C11_Witness ==
    /\ FrameDone
    /\ \E p \in Ids, c \in startedInFrame :
          /\ IsChild(c, p)
          /\ bh[c].kind = "Sequence"
          /\ observed[c] # << >>
          /\ bh[c].m_eStatus \in {BH_SUCCESS, BH_FAILURE}
          /\ bh[p].m_eStatus = bh[c].m_eStatus
          /\ \E l \in Leaves : IsChild(l, c) /\ tickedInFrame[l] = 1

C13_QueuedAtMostOnce ==
    \A b \in Ids :
       Cardinality({k \in DOMAIN m_Behaviors : m_Behaviors[k] = b}) <= 1

\* c was ticked by the tick() call that has returned and is left with
\* status s.
TerminatedInFrame(c, s) == tickedInFrame[c] >= 1 /\ bh[c].m_eStatus = s

\* The status the Sequence p should have when a tick() call returns.
SequenceStatusAtReturn(p) ==
    LET n == Len(bh[p].m_Children)
    IN  IF /\ bh[p].m_Current \in 1..n
           /\ TerminatedInFrame(bh[p].m_Children[bh[p].m_Current],
                                BH_FAILURE)
        THEN BH_FAILURE
        ELSE IF /\ bh[p].m_Current = n + 1
                /\ TerminatedInFrame(bh[p].m_Children[n], BH_SUCCESS)
             THEN BH_SUCCESS
             ELSE BH_RUNNING

SequencesAtReturn ==
    \A p \in Ids :
       bh[p].kind = "Sequence" /\ startCount[p] > 0 =>
          bh[p].m_eStatus = SequenceStatusAtReturn(p)

\* C14: when a tick() call returns, a started Sequence has status
\* BH_FAILURE if its current child terminated with BH_FAILURE during the
\* call, BH_SUCCESS if its last child terminated with BH_SUCCESS during
\* the call, and BH_RUNNING otherwise.
C14_SequenceStatusAtReturn ==
    [][inTick /\ ~inTick' /\ fault' = "none" => SequencesAtReturn']_vars

\* C20: the observer called when b terminates is the one passed to the
\* most recent start(b, observer), and no observer is called if that
\* start() passed none.
C20_LatestObserverFires ==
    [][\A b \in Ids :
          Fired(b) => passed[b] # NULL /\ bh[b].m_Observer = passed[b]]_vars

\* How many entries of the queue q are b.
Count(q, b) == Cardinality({k \in DOMAIN q : q[k] = b})

\* C23: step() pops the front entry of the queue. If it is the end-of-update
\* marker the frame ends and nothing is ticked. Otherwise the popped
\* behavior, and no other, is ticked once; if its status is then not
\* BH_RUNNING and it has an observer, the observer is called with that
\* status and the behavior is not put back in the queue; otherwise no
\* observer is called and the behavior is put at the back of the queue,
\* behind the marker.
C23_StepContract ==
    [][inTick =>
          IF Head(m_Behaviors) = NULL
          THEN /\ ~inTick'
               /\ m_Behaviors' = Tail(m_Behaviors)
               /\ bh' = bh
               /\ tickedInFrame' = tickedInFrame
               /\ observed' = observed
          ELSE /\ inTick'
               /\ tickedInFrame' = [tickedInFrame EXCEPT
                                       ![Head(m_Behaviors)] = @ + 1]
               /\ IF /\ bh'[Head(m_Behaviors)].m_eStatus # BH_RUNNING
                     /\ bh'[Head(m_Behaviors)].m_Observer # NULL
                  THEN /\ Fired(Head(m_Behaviors))
                       /\ FiredWith(Head(m_Behaviors))
                             = bh'[Head(m_Behaviors)].m_eStatus
                       /\ Count(m_Behaviors', Head(m_Behaviors))
                             = Count(m_Behaviors, Head(m_Behaviors)) - 1
                  ELSE /\ observed' = observed
                       /\ Count(m_Behaviors', Head(m_Behaviors))
                             = Count(m_Behaviors, Head(m_Behaviors))
                       /\ m_Behaviors'[Len(m_Behaviors')] = Head(m_Behaviors)
                       /\ \E k \in 1..(Len(m_Behaviors') - 1) :
                             m_Behaviors'[k] = NULL]_vars

\* During a tick() call a leaf with an observer was ticked, terminated,
\* reported to its observer and is no longer queued, while a behavior
\* that is still running waits behind the marker.
C23_Witness ==
    /\ inTick
    /\ fault = "none"
    /\ \E b \in Leaves :
          /\ tickedInFrame[b] = 1
          /\ bh[b].m_eStatus \in {BH_SUCCESS, BH_FAILURE}
          /\ Len(observed[b]) = 1
          /\ Count(m_Behaviors, b) = 0
    /\ m_Behaviors # << >>
    /\ Head(m_Behaviors) = NULL
    /\ Len(m_Behaviors) >= 2

\* C27: every tick() call returns: the end-of-update marker it pushed is
\* popped, although observers and onInitialize() call start() and stop()
\* while the call runs, and when it has returned no marker is left in the
\* queue.
C27_TickReturns ==
    /\ inTick ~> ~inTick
    /\ [](~inTick => Count(m_Behaviors, NULL) = 0)

\* C28: the assertion of Sequence::onChildComplete() never fails: whenever
\* the observer of a child that a Sequence started is called, the child's
\* status is BH_SUCCESS or BH_FAILURE, whatever value of Status the
\* update() of a leaf returns.
C28_ChildCompleteAssertHolds ==
    [][\A c \in Ids :
          Fired(c) /\ bh[c].m_Observer \in Ids =>
             /\ FiredWith(c) \in {BH_SUCCESS, BH_FAILURE}
             /\ fault' = "none"]_vars

\* C21: stop() called on a behavior from inside that behavior's own
\* update() is rejected by an assertion.
C21_SelfStopAsserts ==
    cancelled # NULL => fault = "assert"

(***************************************************************************)
(* Properties of the two Sequences side by side (SpecLockstep)             *)
(***************************************************************************)
\* Leaf i + 1 of the scheduler and child i of the polling Sequence have
\* the same counters.
SameCounts(i) ==
    /\ bh[i + 1].m_iInitializeCalled = m_Children[i].m_iInitializeCalled
    /\ bh[i + 1].m_iUpdateCalled = m_Children[i].m_iUpdateCalled
    /\ bh[i + 1].m_iTerminateCalled = m_Children[i].m_iTerminateCalled

\* C26: given the same shape and the same leaf results in every frame, up
\* to and including the frame in which the polling Sequence terminates,
\* the status of the event-driven Sequence when bt.tick() number k has
\* returned is the value that tick() number k of the polling Sequence
\* returned, and every leaf has the same initialize-, update- and
\* terminate-count in both.
C26_EventMatchesPolling ==
    /\ fault = "none"
    /\ nTicks >= 1 => bh[LockRoot].m_eStatus = ret
    /\ \A i \in 1..NumChildren : SameCounts(i)

\* Both Sequences of three children terminated in the third frame, after
\* a frame in which the first child was still running.
C26_Witness ==
    /\ NumChildren = 3
    /\ nTicks = 3
    /\ ret \in {BH_SUCCESS, BH_FAILURE}
    /\ bh[LockRoot].m_eStatus = ret
    /\ m_Children[1].m_iUpdateCalled >= 2
    /\ bh[3].m_iUpdateCalled >= 1

(***************************************************************************)
(* Properties of the Node/Task tree (SpecShared)                           *)
(***************************************************************************)
TaskIds == DOMAIN tasks

MockTasks == {k \in TaskIds : tasks[k].class = "MockTask"}

\* C15: a child task created when the composite rebinds its child handle
\* receives onInitialize() exactly once, before its first update(): a
\* MockTask that was updated has initialize-count 1, and no MockTask has a
\* larger one.
C15_ReboundChildInitialized ==
    \A k \in MockTasks :
       /\ tasks[k].m_iInitializeCalled <= 1
       /\ tasks[k].m_iUpdateCalled >= 1 => tasks[k].m_iInitializeCalled = 1

\* The host's last call tore down, or tried to, a bound task of a handle
\* whose status was BH_RUNNING.
TornDownRunning(ops) ==
    /\ lastCall.op \in ops
    /\ lastCall.bound
    /\ lastCall.m_eStatus = BH_RUNNING

\* C16, as claimed: a teardown of a bound task while the handle's status
\* is BH_RUNNING trips the assertion, be it reached through teardown(),
\* through setup() or through the destructor of the handle.
C16_AnyTeardownAsserts ==
    TornDownRunning({"teardown", "setup", "~Behavior"}) => aborted

\* C16, amended: teardown() and setup() on a handle that is bound and
\* BH_RUNNING trip the assertion and leave the task bound, and nothing
\* else trips it; the destructor resets the status to BH_INVALID first, so
\* it never trips the assertion and destroys the bound task whatever the
\* status was.
C16_TeardownAssertsDestructorDoesNot ==
    /\ aborted <=> TornDownRunning({"teardown", "setup"})
    /\ aborted => handle.m_pTask # NULL /\ handle.m_eStatus = BH_RUNNING
    /\ lastCall.op = "~Behavior" =>
          /\ handle.m_pTask = NULL
          /\ \A k \in TaskIds : tasks[k].destroyed = 1

\* The handle went out of scope while BH_RUNNING, with the composite task
\* and the task of its second child bound: both were destroyed and the
\* program goes on.
C16_Witness ==
    /\ TornDownRunning({"~Behavior"})
    /\ ~aborted
    /\ ~alive
    /\ size >= 2
    /\ m_pTask[2] # NULL
    /\ tasks[m_pTask[2]].destroyed = 1

\* The handle that owns task k is still there: the host's handle in scope,
\* or the member of a composite task that was not deleted.
OwnerThere(k) ==
    IF tasks[k].owner = HostHandle THEN alive
    ELSE tasks[tasks[k].owner].destroyed = 0

\* C17: a handle is bound to at most one task at a time, and every task
\* got from create() by setup() is passed to destroy() of its own node
\* exactly once, at the next setup(), at teardown() or when the handle is
\* destructed, and is not updated afterwards: a task is passed to destroy()
\* at most once and by the node that created it, a task not yet destroyed
\* is the one its owner, which is still there, is bound to, and a
\* destroyed task is bound to no handle and was never updated since.
C17_TaskDestroyedOnce ==
    \A k \in TaskIds :
       /\ tasks[k].destroyed <= 1
       /\ tasks[k].updatedAfterDestroy = 0
       /\ tasks[k].destroyed = 0 =>
             /\ OwnerThere(k)
             /\ HandleOf(World2, tasks[k].owner).m_pTask = k
       /\ tasks[k].destroyed = 1 =>
             /\ tasks[k].destroyedBy = tasks[k].m_pNode
             /\ HandleOf(World2, tasks[k].owner).m_pTask # k

\* The composite went through two children, the host rebound its handle
\* and let it go out of scope: three tasks or more were created and all
\* are destroyed.
C17_Witness ==
    /\ ~alive
    /\ ~aborted
    /\ size >= 2
    /\ m_pTask[2] # NULL
    /\ Cardinality({k \in TaskIds : tasks[k].m_pNode = CompositeNode}) >= 2
    /\ \A k \in TaskIds : tasks[k].destroyed = 1

(***************************************************************************)
(* Properties of the arena (SpecArena)                                     *)
(***************************************************************************)
\* C18: allocate<T>() succeeds for every allocation whose end offset does
\* not exceed k_MaxBehaviorTreeMemory and asserts for the first one whose
\* end offset does: while no ASSERT has failed the offset, which is the end
\* of the last allocation, is within the capacity, and when the ASSERT of
\* allocate() has failed the offset is beyond it.
C18_AllocateUpToCapacity ==
    /\ arenaFault = "none" => m_iOffset <= k_MaxBehaviorTreeMemory
    /\ arenaFault = "allocate" => m_iOffset > k_MaxBehaviorTreeMemory

\* C19: after addChild(child) has passed its assertions as the i-th call,
\* getChild(i) is the address of that child, which lies in the allocated
\* part of the buffer, and the stored offset is the 16-bit distance from
\* the composite to the child.
C19_GetChildReturnsAdded ==
    \A i \in 1..m_ChildCount :
       /\ getChild(i) = objects[added[i]].offset
       /\ getChild(i) >= 0
       /\ getChild(i) < m_iOffset
       /\ m_ChildOffsets[i]
             = objects[added[i]].offset - objects[composite].offset

\* The step being taken is a call of addChild().
AddChildCalled ==
    /\ objects' = objects
    /\ added' # added \/ arenaFault' # arenaFault

\* C22: a composite of the arena never holds more than seven children: a
\* call of addChild() on a composite that holds seven fails its assertion
\* and stores nothing, and any other call adds one to the child count,
\* fills the next slot and leaves the earlier slots as they were.
C22_FanOutBounded ==
    /\ [](/\ m_ChildCount <= k_MaxChildrenPerComposite
          /\ Len(m_ChildOffsets) = m_ChildCount)
    /\ [][AddChildCalled =>
             IF m_ChildCount = k_MaxChildrenPerComposite
             THEN /\ arenaFault' = "addChild"
                  /\ m_ChildCount' = m_ChildCount
                  /\ m_ChildOffsets' = m_ChildOffsets
             ELSE /\ arenaFault' = "none"
                  /\ m_ChildCount' = m_ChildCount + 1
                  /\ Len(m_ChildOffsets') = m_ChildCount + 1
                  /\ SubSeq(m_ChildOffsets', 1, m_ChildCount)
                        = m_ChildOffsets]_vars

\* An eighth addChild() was tried on a composite holding seven children,
\* which are not all the same child.
C22_Witness ==
    /\ arenaFault = "addChild"
    /\ m_ChildCount = k_MaxChildrenPerComposite
    /\ \E i, j \in 1..m_ChildCount : added[i] # added[j]

\* The sizes of the first n objects allocated, added up.
RECURSIVE SizeSum(_)
SizeSum(n) == IF n = 0 THEN 0 ELSE SizeSum(n - 1) + objects[n].size

\* C24: the allocation offset never decreases, the k-th object allocated
\* lies at the offset that is the sum of the sizes of the objects
\* allocated before it, so that no two objects overlap, and an allocation
\* leaves the objects allocated before it where they are.
C24_BumpAllocation ==
    /\ [](/\ m_iOffset = SizeSum(Len(objects))
          /\ \A k \in DOMAIN objects : objects[k].offset = SizeSum(k - 1)
          /\ \A i, j \in DOMAIN objects :
                i < j => objects[i].offset + objects[i].size
                            <= objects[j].offset)
    /\ [][/\ m_iOffset' >= m_iOffset
           /\ Len(objects') >= Len(objects)
           /\ \A k \in DOMAIN objects : objects'[k] = objects[k]]_vars

\* Objects of two different sizes were allocated until an allocation, the
\* third or a later one, failed the assertion.
C24_Witness ==
    /\ arenaFault = "allocate"
    /\ Len(objects) >= 3
    /\ objects[1].size # objects[2].size
    /\ objects[3].offset = objects[1].size + objects[2].size

=============================================================================
